---- MODULE Spec2Model ----
(***************************************************************************)
(* A model of wixpkgdep: the Version type (version.rs), the registry Key,  *)
(* Value and Data types (registry.rs), the Provider record (provider.rs)   *)
(* and the two engine operations check_dependencies and check_dependents   *)
(* (lib.rs).                                                               *)
(*                                                                         *)
(* A Rust String is a sequence of Unicode scalar values (integers), a      *)
(* byte buffer a sequence of 0..255, a wide string a sequence of UTF-16    *)
(* code units. A u64 Version is held as its four 16-bit limbs, most        *)
(* significant first, because TLC integers are 32 bits wide.               *)
(***************************************************************************)
EXTENDS Integers, Sequences, FiniteSets, TLC

VARIABLES
    store,          \* the registry below the scope's hive
    dependencies,   \* the caller's HashSet<Provider> of violations
    ret,            \* the last engine call: its arguments and its result
    vin,            \* version.rs: the text handed to Version::try_from
    vout,           \* version.rs: the result of Version::try_from
    val,            \* registry.rs: the named value Key::value reads
    vpc,            \* registry.rs: position of the Key::value call
    vcall,          \* registry.rs: locals of the Key::value call
    dbuf,           \* registry.rs: buffer, type tag and memory after the buffer
    dout            \* registry.rs: result of Data::from

vars == <<store, dependencies, ret, vin, vout, val, vpc, vcall, dbuf, dout>>

engineVars == <<store, dependencies, ret>>
versionVars == <<vin, vout>>
valueVars == <<val, vpc, vcall>>
dataVars == <<dbuf, dout>>

----------------------------------------------------------------------------
(* Bounds of the model. *)

\* Most dot-separated fields of a version text handed to the parser.
MaxFields == 5

\* Most bytes of a buffer handed to Data::from.
MaxBuf == 4

\* Most bytes of a value held in the store while Key::value runs.
MaxValueSize == 2

----------------------------------------------------------------------------
(* Sequence helpers. *)

None == [some |-> FALSE]
Some(x) == [some |-> TRUE, v |-> x]

RECURSIVE SeqsUpTo(_, _)
SeqsUpTo(S, n) ==
    IF n = 0 THEN {<<>>}
    ELSE LET shorter == SeqsUpTo(S, n - 1)
         IN  shorter \cup {Append(s, x) : s \in {t \in shorter : Len(t) = n - 1}, x \in S}

RECURSIVE Join(_, _)
Join(parts, sep) ==
    IF Len(parts) = 0 THEN <<>>
    ELSE IF Len(parts) = 1 THEN parts[1]
    ELSE parts[1] \o <<sep>> \o Join(Tail(parts), sep)

----------------------------------------------------------------------------
(* version.rs *)

U16Max == 65535

\* Version::from([u16; 4]): the packed u64, as its four 16-bit limbs.
VersionFrom(fields) == <<fields[1], fields[2], fields[3], fields[4]>>

\* major(), minor(), build(), revision(): shifts of the packed value.
VersionMajor(v) == v[1]
VersionMinor(v) == v[2]
VersionBuild(v) == v[3]
VersionRevision(v) == v[4]

\* derive(PartialOrd, Ord) on Version(u64): unsigned comparison of the packed
\* value, which is the comparison of the limbs from the most significant down.
VersionLt(a, b) ==
    \E i \in 1..4 : a[i] < b[i] /\ \A j \in 1..(i - 1) : a[j] = b[j]

VersionLe(a, b) == a = b \/ VersionLt(a, b)

\* Decimal formatting of one u16 by "{}".
RECURSIVE U16ToString(_)
U16ToString(n) ==
    IF n < 10 THEN <<48 + n>>
    ELSE Append(U16ToString(n \div 10), 48 + (n % 10))

\* impl Display for Version.
VersionToString(v) ==
    Join(<<U16ToString(VersionMajor(v)), U16ToString(VersionMinor(v)),
           U16ToString(VersionBuild(v)), U16ToString(VersionRevision(v))>>, 46)

\* str::trim_start_matches(|c| c == 'v' || c == 'V'): every leading match goes.
RECURSIVE TrimStartV(_)
TrimStartV(s) ==
    IF Len(s) > 0 /\ s[1] \in {118, 86} THEN TrimStartV(Tail(s)) ELSE s

\* str::split(sep): the empty text splits into one empty part.
RECURSIVE Split(_, _)
Split(s, sep) ==
    LET hits == {i \in 1..Len(s) : s[i] = sep}
    IN  IF hits = {} THEN <<s>>
        ELSE LET i == CHOOSE h \in hits : \A g \in hits : h <= g
             IN  <<SubSeq(s, 1, i - 1)>> \o Split(SubSeq(s, i + 1, Len(s)), sep)

\* The digits loop of u16::from_str: None on a non-digit or on overflow.
RECURSIVE ParseDigits(_, _)
ParseDigits(digits, acc) ==
    IF Len(digits) = 0 THEN Some(acc)
    ELSE IF digits[1] \notin 48..57 THEN None
    ELSE LET next == acc * 10 + (digits[1] - 48)
         IN  IF next > U16Max THEN None ELSE ParseDigits(Tail(digits), next)

\* str::parse::<u16>(): empty fails, a lone sign fails, one leading '+' is
\* accepted, '-' is an invalid digit of an unsigned type.
ParseU16(part) ==
    IF Len(part) = 0 THEN None
    ELSE IF Len(part) = 1 /\ part[1] \in {43, 45} THEN None
    ELSE IF part[1] = 43 THEN ParseDigits(Tail(part), 0)
    ELSE ParseDigits(part, 0)

FormatError == [ok |-> FALSE, err |-> "Format"]
Ok(x) == [ok |-> TRUE, v |-> x]

\* The for loop of try_from over the enumerated parts, from part i on.
RECURSIVE ParseFields(_, _, _)
ParseFields(parts, i, fields) ==
    IF i > Len(parts) THEN Ok(VersionFrom(fields))
    ELSE IF i - 1 >= 4 THEN FormatError
    ELSE LET field == ParseU16(parts[i])
         IN  IF ~field.some THEN FormatError
             ELSE ParseFields(parts, i + 1, [fields EXCEPT ![i] = field.v])

\* impl TryFrom<&str> for Version.
VersionTryFrom(value) ==
    ParseFields(Split(TrimStartV(value), 46), 1, <<0, 0, 0, 0>>)

----------------------------------------------------------------------------
(* UTF-16, as std does it. *)

IsHighSurrogate(u) == u >= 55296 /\ u <= 56319
IsLowSurrogate(u) == u >= 56320 /\ u <= 57343

\* str::encode_utf16.
RECURSIVE EncodeUtf16(_)
EncodeUtf16(s) ==
    IF Len(s) = 0 THEN <<>>
    ELSE LET c == s[1]
         IN  (IF c < 65536 THEN <<c>>
              ELSE <<55296 + ((c - 65536) \div 1024), 56320 + ((c - 65536) % 1024)>>)
             \o EncodeUtf16(Tail(s))

\* String::from_utf16_lossy: a surrogate pair is one scalar, an unpaired
\* surrogate becomes U+FFFD.
RECURSIVE FromUtf16Lossy(_)
FromUtf16Lossy(units) ==
    IF Len(units) = 0 THEN <<>>
    ELSE IF IsHighSurrogate(units[1]) /\ Len(units) > 1 /\ IsLowSurrogate(units[2])
    THEN <<65536 + (units[1] - 55296) * 1024 + (units[2] - 56320)>>
         \o FromUtf16Lossy(Tail(Tail(units)))
    ELSE IF IsHighSurrogate(units[1]) \/ IsLowSurrogate(units[1])
    THEN <<65533>> \o FromUtf16Lossy(Tail(units))
    ELSE <<units[1]>> \o FromUtf16Lossy(Tail(units))

\* The u16 values a pointer cast of a byte region reads, little-endian; a
\* trailing odd byte belongs to no unit.
RECURSIVE WideUnits(_)
WideUnits(bytes) ==
    IF Len(bytes) < 2 THEN <<>>
    ELSE <<bytes[1] + 256 * bytes[2]>> \o WideUnits(Tail(Tail(bytes)))

\* The units before the first NUL (wcslen); all of them when there is none.
RECURSIVE UntilNul(_)
UntilNul(units) ==
    IF Len(units) = 0 \/ units[1] = 0 THEN <<>>
    ELSE <<units[1]>> \o UntilNul(Tail(units))

\* PCWSTR::as_wide on a pointer into `memory`: it scans for the NUL from the
\* pointer on and knows no length.
AsWide(memory) == UntilNul(WideUnits(memory))

\* slice::split(|c| *c == 0): the empty slice splits into one empty part.
RECURSIVE SplitUnits(_)
SplitUnits(units) ==
    LET hits == {i \in 1..Len(units) : units[i] = 0}
    IN  IF hits = {} THEN <<units>>
        ELSE LET i == CHOOSE h \in hits : \A g \in hits : h <= g
             IN  <<SubSeq(units, 1, i - 1)>>
                 \o SplitUnits(SubSeq(units, i + 1, Len(units)))

----------------------------------------------------------------------------
(* registry.rs: Data *)

REG_SZ == 1
REG_EXPAND_SZ == 2
REG_BINARY == 3
REG_DWORD == 4
REG_MULTI_SZ == 7
REG_QWORD == 11

DataNone == [kind |-> "None"]
DataPanic == [kind |-> "Panic"]

\* u32::from_le_bytes / u64::from_le_bytes, as 16-bit limbs, most significant
\* first.
RECURSIVE LeLimbs(_)
LeLimbs(bytes) ==
    IF Len(bytes) < 2 THEN <<>>
    ELSE LeLimbs(Tail(Tail(bytes))) \o <<bytes[1] + 256 * bytes[2]>>

\* The filter_map of the REG_MULTI_SZ arm: empty segments are dropped.
RECURSIVE MultiStrings(_)
MultiStrings(parts) ==
    IF Len(parts) = 0 THEN <<>>
    ELSE (IF Len(parts[1]) = 0 THEN <<>> ELSE <<FromUtf16Lossy(parts[1])>>)
         \o MultiStrings(Tail(parts))

\* Data::from(data, data_type). `after` is the memory that follows the slice:
\* the string arm scans from the slice's pointer for a NUL and is not bounded
\* by the slice's length. copy_from_slice panics on a length mismatch.
DataFrom(data, data_type, after) ==
    CASE data_type = REG_BINARY -> [kind |-> "Binary", bytes |-> data]
      [] data_type = REG_DWORD ->
            IF Len(data) # 4 THEN DataPanic
            ELSE [kind |-> "DWord", limbs |-> LeLimbs(data)]
      [] data_type = REG_QWORD ->
            IF Len(data) # 8 THEN DataPanic
            ELSE [kind |-> "QWord", limbs |-> LeLimbs(data)]
      [] data_type \in {REG_SZ, REG_EXPAND_SZ} ->
            IF Len(data) = 0 THEN [kind |-> "String", s |-> <<>>]
            ELSE [kind |-> "String", s |-> FromUtf16Lossy(AsWide(data \o after))]
      [] data_type = REG_MULTI_SZ ->
            [kind |-> "MultiString",
             list |-> MultiStrings(SplitUnits(WideUnits(data)))]
      [] OTHER -> DataNone

\* Value::from(name, data, data_type).
ValueFrom(name, data, data_type, after) ==
    LET d == DataFrom(data, data_type, after)
    IN  IF d.kind \in {"None", "Panic"} THEN d
        ELSE [kind |-> "Value", name |-> name, data |-> d]

----------------------------------------------------------------------------
(* Specification SpecVersion: Version::try_from and Display on bounded texts. *)

Idle == [kind |-> "Idle"]

\* Texts of one field: "", "0", "1", "65535", "65536", "x".
VersionFieldTexts ==
    {<<>>, <<48>>, <<49>>, <<54, 53, 53, 51, 53>>, <<54, 53, 53, 51, 54>>, <<120>>}

\* Prefixes: none, "v", "V", "vv".
VersionPrefixes == {<<>>, <<118>>, <<86>>, <<118, 118>>}

VersionInputs ==
    {p \o Join(fs, 46) :
        p \in VersionPrefixes,
        fs \in {f \in SeqsUpTo(VersionFieldTexts, MaxFields) : Len(f) >= 1}}

VersionInit ==
    /\ vin \in VersionInputs
    /\ vout = Idle
    /\ store = Idle /\ dependencies = {} /\ ret = Idle
    /\ val = Idle /\ vpc = Idle /\ vcall = Idle
    /\ dbuf = Idle /\ dout = Idle

\* One call of Version::try_from(vin), and to_string() of the parsed version.
VersionParse ==
    /\ vout = Idle
    /\ LET r == VersionTryFrom(vin)
       IN  vout' = [kind |-> "Parsed", res |-> r,
                    text |-> IF r.ok THEN VersionToString(r.v) ELSE <<>>]
    /\ UNCHANGED <<vin, engineVars, valueVars, dataVars>>

VersionNext == VersionParse

SpecVersion == VersionInit /\ [][VersionNext]_vars

\* The reference parser of the claim: one optional leading v or V, 1 to 4
\* fields, each a decimal number in 0..65535, missing fields 0.
RECURSIVE RefDecimal(_)
RefDecimal(p) ==
    IF Len(p) = 0 THEN 0
    ELSE RefDecimal(SubSeq(p, 1, Len(p) - 1)) * 10 + (p[Len(p)] - 48)

RefIsField(p) ==
    /\ Len(p) \in 1..5
    /\ \A i \in 1..Len(p) : p[i] \in 48..57
    /\ RefDecimal(p) <= 65535

RefVersionParse(s) ==
    LET body == IF Len(s) > 0 /\ s[1] \in {118, 86} THEN Tail(s) ELSE s
        parts == Split(body, 46)
    IN  IF Len(parts) \in 1..4 /\ \A i \in 1..Len(parts) : RefIsField(parts[i])
        THEN Ok([i \in 1..4 |-> IF i <= Len(parts) THEN RefDecimal(parts[i]) ELSE 0])
        ELSE FormatError

\* C7: for every text, Version::try_from gives what the reference parser
\* gives (one optional v/V ignored, 1..4 decimal fields in 0..65535, missing
\* fields 0, anything else the Format error), and a parsed version formats
\* as its four fields.
C7_ParseAgreesWithReference ==
    vout # Idle =>
        /\ vout.res = RefVersionParse(vin)
        /\ vout.res.ok =>
              vout.text = Join(<<U16ToString(vout.res.v[1]), U16ToString(vout.res.v[2]),
                                 U16ToString(vout.res.v[3]), U16ToString(vout.res.v[4])>>, 46)

----------------------------------------------------------------------------
(* Specification SpecData: Data::from on bounded buffers. *)

DataBytes == {0, 104, 216}

DataTags == {0, REG_SZ, REG_EXPAND_SZ, REG_BINARY, REG_DWORD, REG_MULTI_SZ, REG_QWORD}

\* The buffer of tests::data_from_sz: h,0,e,0,l,0,l,0,o,0.
HelloBytes == <<104, 0, 101, 0, 108, 0, 108, 0, 111, 0>>

DataInit ==
    /\ dbuf \in [data : SeqsUpTo(DataBytes, MaxBuf) \cup {HelloBytes},
                 data_type : DataTags,
                 after : SeqsUpTo(DataBytes, 2)]
    /\ dout = Idle
    /\ store = Idle /\ dependencies = {} /\ ret = Idle
    /\ vin = Idle /\ vout = Idle
    /\ val = Idle /\ vpc = Idle /\ vcall = Idle

\* One call of Data::from(&data, data_type).
DataDecode ==
    /\ dout = Idle
    /\ dout' = DataFrom(dbuf.data, dbuf.data_type, dbuf.after)
    /\ UNCHANGED <<dbuf, engineVars, versionVars, valueVars>>

DataNext == DataDecode

SpecData == DataInit /\ [][DataNext]_vars

\* C10: a buffer with a string tag decodes to the text of the buffer's own
\* UTF-16 little-endian units up to its NUL (all of them when it holds none,
\* as for h,0,e,0,l,0,l,0,o,0), the empty buffer to the empty string; the
\* result is a function of the buffer's bytes alone.
C10_StringFromBufferOnly ==
    (dout # Idle /\ dbuf.data_type \in {REG_SZ, REG_EXPAND_SZ}) =>
        dout = [kind |-> "String",
                s |-> FromUtf16Lossy(UntilNul(WideUnits(dbuf.data)))]

----------------------------------------------------------------------------
(* registry.rs: Key::value, one store read at a time. *)

\* A named value of the store: absent, or a type tag and its bytes.
NoValue == [present |-> FALSE]
StoredValue(t, d) == [present |-> TRUE, type |-> t, data |-> d]

IsStringTag(t) == t \in {REG_SZ, REG_EXPAND_SZ, REG_MULTI_SZ}

\* The bytes RegGetValueW hands out: a string value stored without its
\* terminating NUL is given one.
RegGetValueBytes(v) ==
    LET units == WideUnits(v.data)
    IN  IF IsStringTag(v.type)
           /\ (Len(v.data) % 2 = 1 \/ Len(units) = 0 \/ units[Len(units)] # 0)
        THEN v.data \o <<0, 0>>
        ELSE v.data

\* Outcomes of RegGetValueW with no buffer (pvData = NULL): the size and the
\* type are reported with success or with ERROR_MORE_DATA; a missing value
\* is ERROR_FILE_NOT_FOUND; any call may fail otherwise.
FirstReadOutcomes(v) ==
    IF v.present THEN {"Ok", "MoreData", "Other"} ELSE {"NotFound", "Other"}

\* Outcomes of RegGetValueW with a buffer of `size` bytes.
SecondReadOutcomes(v, size) ==
    IF ~v.present THEN {"NotFound", "Other"}
    ELSE IF Len(RegGetValueBytes(v)) > size THEN {"MoreData", "Other"}
    ELSE {"Ok", "Other"}

\* vec![0x8; data_size] after the store has written `bytes` at its start.
FilledBuffer(bytes, size) ==
    [i \in 1..size |-> IF i <= Len(bytes) THEN bytes[i] ELSE 8]

\* The value name "Version".
VersionName == <<86, 101, 114, 115, 105, 111, 110>>

ValueBytes == {0, 49}
ValueTags == {REG_SZ, REG_DWORD, REG_BINARY}

ValueStates ==
    {NoValue} \cup
    {StoredValue(t, d) : t \in ValueTags, d \in SeqsUpTo(ValueBytes, MaxValueSize)}

ValueInit ==
    /\ val \in ValueStates
    /\ vpc = "start"
    /\ vcall = [reads |-> 0, first |-> "", second |-> "", data_type |-> 0,
                data_size |-> 0, buflen |-> 0, mutated |-> FALSE, result |-> Idle]
    /\ store = Idle /\ dependencies = {} /\ ret = Idle
    /\ vin = Idle /\ vout = Idle
    /\ dbuf = Idle /\ dout = Idle

\* registry.rs:104-117: the read without a buffer; only E_MORE_DATA among the
\* errors lets the call go on.
ValueFirstRead ==
    /\ vpc = "start"
    /\ \E o \in FirstReadOutcomes(val) :
          IF o \in {"Ok", "MoreData"}
          THEN /\ vpc' = "retry"
               /\ vcall' = [vcall EXCEPT !.reads = @ + 1, !.first = o,
                                         !.data_type = val.type,
                                         !.data_size = Len(RegGetValueBytes(val))]
          ELSE /\ vpc' = "done"
               /\ vcall' = [vcall EXCEPT !.reads = @ + 1, !.first = o,
                                         !.result = DataNone]
    /\ UNCHANGED <<val, engineVars, versionVars, dataVars>>

\* Another process rewrites or deletes the value between the two reads.
ValueMutate ==
    /\ vpc = "retry"
    /\ ~vcall.mutated
    /\ val' \in ValueStates \ {val}
    /\ vcall' = [vcall EXCEPT !.mutated = TRUE]
    /\ UNCHANGED <<vpc, engineVars, versionVars, dataVars>>

\* A second read that would go round again on ERROR_MORE_DATA.
ValueSecondReadLooping ==
    /\ vpc = "retry"
    /\ vcall.reads < 4
    /\ \E o \in SecondReadOutcomes(val, vcall.data_size) :
          IF o = "Ok"
          THEN /\ vpc' = "done"
               /\ vcall' = [vcall EXCEPT
                     !.reads = @ + 1, !.second = o, !.buflen = vcall.data_size,
                     !.result = ValueFrom(VersionName,
                                    FilledBuffer(RegGetValueBytes(val), vcall.data_size),
                                    vcall.data_type, <<>>)]
          ELSE IF o = "MoreData"
          THEN /\ vpc' = "retry"
               /\ vcall' = [vcall EXCEPT
                     !.reads = @ + 1, !.second = o, !.buflen = vcall.data_size,
                     !.data_size = Len(RegGetValueBytes(val))]
          ELSE /\ vpc' = "done"
               /\ vcall' = [vcall EXCEPT
                     !.reads = @ + 1, !.second = o, !.buflen = vcall.data_size,
                     !.result = DataNone]
    /\ UNCHANGED <<val, engineVars, versionVars, dataVars>>

\* registry.rs:119-132: the read into vec![0x8; data_size]; `.ok()?` turns
\* every failure into None, and a success decodes the whole vector under the
\* type tag of the first read.
ValueSecondRead ==
    /\ vpc = "retry"
    /\ \E o \in SecondReadOutcomes(val, vcall.data_size) :
          /\ vpc' = "done"
          /\ vcall' = [vcall EXCEPT
                !.reads = @ + 1, !.second = o, !.buflen = vcall.data_size,
                !.result = IF o = "Ok"
                           THEN ValueFrom(VersionName,
                                    FilledBuffer(RegGetValueBytes(val), vcall.data_size),
                                    vcall.data_type, <<>>)
                           ELSE DataNone]
    /\ UNCHANGED <<val, engineVars, versionVars, dataVars>>

ValueNext == ValueFirstRead \/ ValueMutate \/ ValueSecondRead

SpecValue == ValueInit /\ [][ValueNext]_vars

\* C8: Key::value reads once without a buffer; on "more data" it reads once
\* more with a buffer of the reported size; any other failure of the first
\* read and any failure of the second (the value deleted or grown in between
\* included) ends the call with None; no call reads the store more than twice.
C8_ValueRetriesOnce ==
    /\ vcall.reads <= 2
    /\ vpc = "done" <=> vcall.result # Idle
    /\ (vpc = "done" /\ vcall.first \notin {"Ok", "MoreData"}) =>
          vcall.reads = 1 /\ vcall.result = DataNone
    /\ (vpc = "done" /\ vcall.first = "MoreData") =>
          vcall.reads = 2 /\ vcall.buflen = vcall.data_size
    /\ (vpc = "done" /\ vcall.first \in {"Ok", "MoreData"} /\ vcall.second # "Ok") =>
          vcall.reads = 2 /\ vcall.result = DataNone

\* The first read reported "more data", the value grew before the retry, the
\* retry failed with "more data" and the call ended with None.
C8_Witness ==
    /\ vpc = "done"
    /\ vcall.first = "MoreData"
    /\ vcall.mutated
    /\ vcall.second = "MoreData"
    /\ vcall.reads = 2
    /\ vcall.result = DataNone

----------------------------------------------------------------------------
(* The store, as the engine sees it.                                       *)
(*                                                                         *)
(* store.exists, store.denied : the root key ROOT_KEY of the scope's hive  *)
(*     exists; opening it fails with ERROR_ACCESS_DENIED.                  *)
(* store.version   : the value named Version of the root key itself.       *)
(* store.providers : stored key name -> provider node, with fields denied, *)
(*     displayName, version, id (the unnamed value) and dependents, which  *)
(*     is NoKey or [denied, children], the children in enumeration order,  *)
(*     each [name, denied].                                                *)
(***************************************************************************)

\* The bytes of a REG_SZ value holding `text`, as the store keeps a string
\* written with its terminating NUL.
RECURSIVE LeBytes(_)
LeBytes(units) ==
    IF Len(units) = 0 THEN <<>>
    ELSE <<units[1] % 256, units[1] \div 256>> \o LeBytes(Tail(units))

SzValue(text) == StoredValue(REG_SZ, LeBytes(EncodeUtf16(text) \o <<0>>))

NoKey == [exists |-> FALSE]

\* char::to_uppercase on the letters of the model: ASCII a-z, and U+00DF,
\* whose uppercase is "SS".
UpperChar(c) ==
    IF c >= 97 /\ c <= 122 THEN <<c - 32>>
    ELSE IF c = 223 THEN <<83, 83>>
    ELSE <<c>>

\* str::to_uppercase.
RECURSIVE ToUppercase(_)
ToUppercase(s) ==
    IF Len(s) = 0 THEN <<>> ELSE UpperChar(s[1]) \o ToUppercase(Tail(s))

E_FILE_NOT_FOUND == "E_FILE_NOT_FOUND"
E_ACCESSDENIED == "E_ACCESSDENIED"

Err(e) == [ok |-> FALSE, err |-> e]

KEY_READ == "KEY_READ"
KEY_ALL_ACCESS == "KEY_ALL_ACCESS"

\* Key::open(scope.into(), ROOT_KEY).
KeyOpenRoot(st) ==
    IF ~st.exists THEN Err(E_FILE_NOT_FOUND)
    ELSE IF st.denied THEN Err(E_ACCESSDENIED)
    ELSE Ok([node |-> <<>>, access |-> KEY_READ])

\* The stored name a path names under the root: the store matches key names
\* without regard to letter case.
StoredName(st, path) ==
    {n \in DOMAIN st.providers : ToUppercase(n) = ToUppercase(path)}

\* Key::open_subkey(path) on the root handle.
KeyOpenSubkey(st, key, path) ==
    IF StoredName(st, path) = {} THEN Err(E_FILE_NOT_FOUND)
    ELSE LET n == CHOOSE x \in StoredName(st, path) : TRUE
         IN  IF st.providers[n].denied THEN Err(E_ACCESSDENIED)
             ELSE Ok([node |-> <<n>>, access |-> key.access])

\* Key::open_subkey(DEPENDENTS_KEY) on a provider's handle.
KeyOpenDependents(st, key) ==
    LET d == st.providers[key.node[1]].dependents
    IN  IF ~d.exists THEN Err(E_FILE_NOT_FOUND)
        ELSE IF d.denied THEN Err(E_ACCESSDENIED)
        ELSE Ok([node |-> Append(key.node, "Dependents"), access |-> key.access])

\* Key::value(name) with the store left alone during the call: both reads
\* succeed on a present value, and a missing value gives None.
KeyValue(name, v) ==
    IF ~v.present THEN DataNone
    ELSE LET bytes == RegGetValueBytes(v)
         IN  ValueFrom(name, FilledBuffer(bytes, Len(bytes)), v.type, <<>>)

\* get_name(path): the last segment, trailing '\' trimmed.
RECURSIVE TrimEndSlash(_)
TrimEndSlash(s) ==
    IF Len(s) > 0 /\ s[Len(s)] = 92 THEN TrimEndSlash(SubSeq(s, 1, Len(s) - 1)) ELSE s

GetName(path) ==
    LET parts == Split(TrimEndSlash(path), 92)
    IN  parts[Len(parts)]

\* Keys::next until it ends: each child index is enumerated and opened with
\* Key::open; the first child that cannot be opened ends the iterator.
RECURSIVE KeysCollect(_)
KeysCollect(children) ==
    IF Len(children) = 0 THEN <<>>
    ELSE IF children[1].denied THEN <<>>
    ELSE <<[name |-> GetName(children[1].name), access |-> KEY_READ]>>
         \o KeysCollect(Tail(children))

----------------------------------------------------------------------------
(* provider.rs *)

DisplayNameName == <<68, 105, 115, 112, 108, 97, 121, 78, 97, 109, 101>>

\* Value::as_version: a string value parses as a version; anything else,
\* a missing value included, is no version.
AsVersion(value) ==
    IF value.kind = "Value" /\ value.data.kind = "String"
    THEN LET r == VersionTryFrom(value.data.s)
         IN  IF r.ok THEN Some(r.v) ELSE None
    ELSE None

\* Value::as_string.
AsString(value) ==
    IF value.kind = "Value" /\ value.data.kind = "String"
    THEN Some(value.data.s)
    ELSE None

\* Provider::new(provider_key): the key alone, every other field default.
ProviderNew(provider_key) ==
    [key |-> provider_key, name |-> <<>>, version |-> <<0, 0, 0, 0>>,
     id |-> None, attributes |-> None]

\* Provider::from(provider_key, key): the three values are read with `?`, so
\* a missing DisplayName, Version or unnamed value fails the call; only the
\* conversion of the unnamed value to a string is optional (`.ok()`).
ProviderFrom(provider_key, node) ==
    LET name == KeyValue(DisplayNameName, node.displayName)
        version == KeyValue(VersionName, node.version)
        id == KeyValue(<<>>, node.id)
    IN  IF name.kind # "Value" \/ version.kind # "Value" \/ id.kind # "Value"
        THEN Err("NotFound")
        ELSE IF ~AsString(name).some \/ ~AsVersion(version).some THEN Err("Format")
        ELSE Ok([key |-> provider_key, name |-> AsString(name).v,
                 version |-> AsVersion(version).v, id |-> AsString(id),
                 attributes |-> None])

\* Provider::from_requires_display_name(provider_key, key): DisplayName and
\* Version are required, the unnamed value is optional.
ProviderFromRequiresDisplayName(provider_key, node) ==
    LET name == KeyValue(DisplayNameName, node.displayName)
        version == KeyValue(VersionName, node.version)
        id == KeyValue(<<>>, node.id)
    IN  IF name.kind # "Value" \/ version.kind # "Value" THEN Err("NotFound")
        ELSE IF ~AsString(name).some \/ ~AsVersion(version).some THEN Err("Format")
        ELSE Ok([key |-> provider_key, name |-> AsString(name).v,
                 version |-> AsVersion(version).v, id |-> AsString(id),
                 attributes |-> None])

\* A comparison of the keys as written.
ProviderEqCaseSensitive(a, b) == a.key = b.key

\* impl PartialEq for Provider.
ProviderEq(a, b) == ToUppercase(a.key) = ToUppercase(b.key)

\* impl Hash for Provider: what is fed to the hasher.
ProviderHash(a) == ToUppercase(a.key)

\* An insertion that puts the new value in the place of an equal member.
HashSetReplace(set, p) == {q \in set : ~ProviderEq(q, p)} \cup {p}

\* HashSet<Provider>::insert: a value equal to a member is not inserted and
\* the member stays.
HashSetInsert(set, p) ==
    IF \E q \in set : ProviderHash(q) = ProviderHash(p) /\ ProviderEq(q, p)
    THEN set
    ELSE set \cup {p}

----------------------------------------------------------------------------
(* lib.rs *)

AttributesNone == 0
MinVersionInclusive == 256
MaxVersionInclusive == 512

\* u32 & u32.
RECURSIVE BitAndU32(_, _)
BitAndU32(a, b) ==
    IF a = 0 \/ b = 0 THEN 0
    ELSE (a % 2) * (b % 2) + 2 * BitAndU32(a \div 2, b \div 2)

\* impl BitAnd for Attributes.
AttributesBitAnd(lhs, rhs) == BitAndU32(lhs, rhs)

\* Every value of the enum Attributes.
AttributesValues == {AttributesNone, MinVersionInclusive, MaxVersionInclusive}

\* Every value of the parameter attributes: Option<Attributes>.
AttributesArgs == {None} \cup {Some(a) : a \in AttributesValues}

\* Option<Attributes>::unwrap_or_default.
UnwrapOrDefault(attributes) ==
    IF attributes.some THEN attributes.v ELSE AttributesNone

\* map_registry_error.
MapRegistryError(code) ==
    IF code = E_FILE_NOT_FOUND THEN [kind |-> "NotFound"]
    ELSE [kind |-> "RegistryError", code |-> code]

\* Error::RegistryError as map_err's function.
RegistryError(code) == [kind |-> "RegistryError", code |-> code]

\* to_pcwstr(value): the pointer to the Vec<u16> built from value's UTF-16
\* units and a NUL; the Vec is dropped when to_pcwstr returns, so the
\* pointer handed out names freed memory.
ToPcwstr(value) == [units |-> EncodeUtf16(value) \o <<0>>, freed |-> TRUE]

\* A text the allocator may have put where a freed buffer was: "b", the
\* key of another call. (A text that names no key reads as a missing key.)
HeapTexts == {<<98>>}

\* What a read through the pointer can find: the units written, and, once
\* the buffer is freed, whatever the memory holds by then.
ReadPcwstr(p) ==
    {FromUtf16Lossy(UntilNul(p.units))} \cup (IF p.freed THEN HeapTexts ELSE {})

\* lib.rs:113-131: the range checks on a found version.
VersionInRange(version, min_version, max_version, attributes) ==
    LET allow_equal_min ==
            AttributesBitAnd(UnwrapOrDefault(attributes), MinVersionInclusive)
                = MinVersionInclusive
        allow_equal_max ==
            AttributesBitAnd(UnwrapOrDefault(attributes), MaxVersionInclusive)
                = MaxVersionInclusive
        min_ok == min_version.some =>
                     \/ allow_equal_min /\ VersionLe(min_version.v, version)
                     \/ VersionLt(min_version.v, version)
        max_ok == max_version.some =>
                     \/ allow_equal_max /\ VersionLe(version, max_version.v)
                     \/ VersionLt(version, max_version.v)
    IN  min_ok /\ max_ok

\* lib.rs:94: the Version looked up after the provider's key opened. `key`
\* in that arm is still the root handle (the provider's handle is `k`), so
\* the value read is the root key's.
FoundVersion(st, k) == AsVersion(KeyValue(VersionName, st.version))

\* check_dependencies, given the path the open_subkey call read through the
\* pointer: the result and the violation set on return, with the version the
\* range check used and the stage the call returned from.
CheckDependenciesResult(st, deps, provider_key, path, min_version, max_version, attributes) ==
    LET root == KeyOpenRoot(st)
    IN  IF ~root.ok
        THEN [result |-> Err(RegistryError(root.err)), deps |-> deps,
              found |-> None, stage |-> "root"]
        ELSE
    LET sub == KeyOpenSubkey(st, root.v, path)
    IN  IF ~sub.ok /\ MapRegistryError(sub.err).kind = "NotFound"
        THEN [result |-> Err([kind |-> "NotFound"]),
              deps |-> HashSetInsert(deps, ProviderNew(provider_key)),
              found |-> None, stage |-> "key"]
        ELSE IF ~sub.ok
        THEN [result |-> Err(MapRegistryError(sub.err)), deps |-> deps,
              found |-> None, stage |-> "key"]
        ELSE
    LET version == FoundVersion(st, sub.v)
    IN  IF ~version.some
        THEN [result |-> Err([kind |-> "NotFound"]),
              deps |-> HashSetInsert(deps, ProviderNew(provider_key)),
              found |-> None, stage |-> "version"]
        ELSE
    LET provider == ProviderFromRequiresDisplayName(
                        provider_key, st.providers[sub.v.node[1]])
    IN  IF ~provider.ok
        THEN [result |-> Err([kind |-> provider.err]), deps |-> deps,
              found |-> version, stage |-> "provider"]
        ELSE IF ~VersionInRange(version.v, min_version, max_version, attributes)
        THEN [result |-> Err([kind |-> "NotFound"]),
              deps |-> HashSetInsert(deps, provider.v),
              found |-> version, stage |-> "range"]
        ELSE [result |-> Ok("unit"), deps |-> deps,
              found |-> version, stage |-> "range"]

\* get_provider(provider_key, scope), given the path read through the pointer.
GetProvider(st, provider_key, path) ==
    LET root == KeyOpenRoot(st)
    IN  IF ~root.ok THEN Err(MapRegistryError(root.err).kind)
        ELSE LET sub == KeyOpenSubkey(st, root.v, path)
             IN  IF ~sub.ok THEN Err(MapRegistryError(sub.err).kind)
                 ELSE ProviderFrom(provider_key, st.providers[sub.v.node[1]])

\* The filter_map closure of check_dependents over the enumerated keys;
\* reads[n] is what get_provider reads through its pointer for the name n.
RECURSIVE DependentsList(_, _, _, _)
DependentsList(st, keys, ignore, reads) ==
    IF Len(keys) = 0 THEN <<>>
    ELSE LET k == keys[1]
             rest == DependentsList(st, Tail(keys), ignore, reads)
         IN  IF ignore.some /\ k.name \in ignore.v THEN rest
             ELSE LET p == GetProvider(st, k.name, reads[k.name])
                  IN  <<IF p.ok THEN p.v ELSE ProviderNew(k.name)>> \o rest

\* check_dependents, given the path its open_subkey call read through the
\* pointer and the paths the get_provider calls read.
CheckDependentsResult(st, provider_key, path, ignore, reads) ==
    LET root == KeyOpenRoot(st)
    IN  IF ~root.ok /\ MapRegistryError(root.err).kind = "NotFound" THEN Ok(None)
        ELSE IF ~root.ok THEN Err(MapRegistryError(root.err))
        ELSE
    LET sub == KeyOpenSubkey(st, root.v, path)
    IN  IF ~sub.ok /\ MapRegistryError(sub.err).kind = "NotFound" THEN Ok(None)
        ELSE IF ~sub.ok THEN Err(MapRegistryError(sub.err))
        ELSE
    LET dep == KeyOpenDependents(st, sub.v)
    IN  IF ~dep.ok /\ MapRegistryError(dep.err).kind = "NotFound" THEN Ok(None)
        ELSE IF ~dep.ok THEN Err(MapRegistryError(dep.err))
        ELSE Ok(Some(DependentsList(
                 st, KeysCollect(st.providers[sub.v.node[1]].dependents.children),
                 ignore, reads)))

----------------------------------------------------------------------------
(* Specification Spec: check_dependencies calls that share one violation   *)
(* set, against a store.                                                   *)

\* Provider keys callers pass: "f", "F".
CallKeys == {<<102>>, <<70>>}

\* Minimum bounds callers pass: none, 1.0.0.0, 2.0.0.0.
MinVersionArgs == {None, Some(<<1, 0, 0, 0>>), Some(<<2, 0, 0, 0>>)}

\* Maximum bounds callers pass: none, 2.0.0.0.
MaxVersionArgs == {None, Some(<<2, 0, 0, 0>>)}

\* Attributes callers pass: none, MinVersionInclusive, MaxVersionInclusive.
CallAttributes == {None, Some(MinVersionInclusive), Some(MaxVersionInclusive)}

Node(denied, name, id, version, dependents) ==
    [denied |-> denied, displayName |-> name, id |-> id, version |-> version,
     dependents |-> dependents]

\* The registration of "f" with DisplayName "n", the unnamed value "i" and
\* Version "1".
NodeF == Node(FALSE, SzValue(<<110>>), SzValue(<<105>>), SzValue(<<49>>), NoKey)

\* The registration of "b" with DisplayName "n", the unnamed value "i" and
\* Version "2".
NodeB == Node(FALSE, SzValue(<<110>>), SzValue(<<105>>), SzValue(<<50>>), NoKey)

\* Registrations of "f": complete, the key not openable, no Version, an
\* undecodable Version "x", no DisplayName, no unnamed value.
NodesF ==
    {NodeF,
     [NodeF EXCEPT !.denied = TRUE],
     [NodeF EXCEPT !.version = NoValue],
     [NodeF EXCEPT !.version = SzValue(<<120>>)],
     [NodeF EXCEPT !.displayName = NoValue],
     [NodeF EXCEPT !.id = NoValue]}

RootStore(version, providers) ==
    [exists |-> TRUE, denied |-> FALSE, version |-> version, providers |-> providers]

\* The root key missing, and not openable.
RootMissing ==
    [exists |-> FALSE, denied |-> FALSE, version |-> NoValue, providers |-> <<>>]
RootDenied ==
    [exists |-> TRUE, denied |-> TRUE, version |-> NoValue, providers |-> <<>>]

ProvidersFB(f, b) == [n \in {<<102>>, <<98>>} |-> IF n = <<102>> THEN f ELSE b]

\* The root key holds no Version value, or (as nothing forbids) "1", "2"
\* or "3".
Stores ==
    {RootMissing, RootDenied} \cup
    {RootStore(v, [n \in {<<98>>} |-> NodeB]) : v \in {NoValue, SzValue(<<49>>)}} \cup
    {RootStore(v, ProvidersFB(f, NodeB)) :
        v \in {NoValue, SzValue(<<49>>)}, f \in NodesF} \cup
    {RootStore(v, ProvidersFB(NodeF, NodeB)) : v \in {SzValue(<<50>>), SzValue(<<51>>)}}

Init ==
    /\ store \in Stores
    /\ dependencies = {}
    /\ ret = [op |-> "none"]
    /\ vin = Idle /\ vout = Idle
    /\ val = Idle /\ vpc = Idle /\ vcall = Idle
    /\ dbuf = Idle /\ dout = Idle

\* One call of check_dependencies(provider_key, scope, min_version,
\* max_version, attributes, &mut dependencies).
CheckDependenciesCall(provider_key, min_version, max_version, attributes) ==
    \E path \in ReadPcwstr(ToPcwstr(provider_key)) :
        \E r \in {CheckDependenciesResult(store, dependencies, provider_key, path,
                                         min_version, max_version, attributes)} :
            /\ dependencies' = r.deps
            /\ ret' = [op |-> "check_dependencies", key |-> provider_key,
                       path |-> path, min |-> min_version, max |-> max_version,
                       attributes |-> attributes, before |-> dependencies,
                       result |-> r.result, found |-> r.found, stage |-> r.stage]
            /\ UNCHANGED <<store, versionVars, valueVars, dataVars>>

CheckDependencies ==
    \E provider_key \in CallKeys, min_version \in MinVersionArgs,
       max_version \in MaxVersionArgs, attributes \in CallAttributes :
        CheckDependenciesCall(provider_key, min_version, max_version, attributes)

Next == CheckDependencies

Spec == Init /\ [][Next]_vars

----------------------------------------------------------------------------
(* Specification SpecBatch: a batch of check_dependencies calls for several *)
(* providers that share one violation set.                                  *)

\* Provider keys of the batch: "f", "F", "b".
BatchKeys == {<<102>>, <<70>>, <<98>>}

\* Minimum bounds of the batch: none, 2.0.0.0.
BatchMinVersionArgs == {None, Some(<<2, 0, 0, 0>>)}

BatchInit == Init

BatchCheckDependencies ==
    \E provider_key \in BatchKeys, min_version \in BatchMinVersionArgs :
        CheckDependenciesCall(provider_key, min_version, None, None)

BatchNext == BatchCheckDependencies

SpecBatch == BatchInit /\ [][BatchNext]_vars

----------------------------------------------------------------------------
(* Specification SpecDependents: check_dependents calls against a store.   *)

\* Ignore sets callers pass: none, {}, {"b"}, {"B"}, {"b", "q"}.
IgnoreArgs == {None, Some({}), Some({<<98>>}), Some({<<66>>}), Some({<<98>>, <<113>>})}

Child(name, denied) == [name |-> name, denied |-> denied]

\* States of a provider's Dependents key, with children "b" and "q": not
\* openable, empty, one child, two children in either order, and two
\* children the first of which is not openable.
DependentsStates ==
    {[exists |-> TRUE, denied |-> TRUE, children |-> <<>>]} \cup
    {[exists |-> TRUE, denied |-> FALSE, children |-> c] :
        c \in {<<>>, <<Child(<<98>>, FALSE)>>,
               <<Child(<<98>>, FALSE), Child(<<113>>, FALSE)>>,
               <<Child(<<113>>, FALSE), Child(<<98>>, FALSE)>>,
               <<Child(<<98>>, TRUE), Child(<<113>>, FALSE)>>}}

DependentsNodesF ==
    {NodeF, [NodeF EXCEPT !.denied = TRUE]} \cup
    {[NodeF EXCEPT !.dependents = d] : d \in DependentsStates}

DependentsNodesB ==
    {NodeB,
     [NodeB EXCEPT !.displayName = NoValue],
     [NodeB EXCEPT !.denied = TRUE],
     [NodeB EXCEPT !.dependents =
         [exists |-> TRUE, denied |-> FALSE, children |-> <<Child(<<113>>, FALSE)>>]]}

DependentsStores ==
    {RootMissing, RootDenied, RootStore(NoValue, <<>>)} \cup
    {RootStore(NoValue, [n \in {<<102>>} |-> f]) : f \in DependentsNodesF} \cup
    {RootStore(NoValue, [n \in {<<98>>} |-> b]) : b \in DependentsNodesB} \cup
    {RootStore(NoValue, ProvidersFB(f, b)) :
        f \in DependentsNodesF, b \in DependentsNodesB}

DependentsInit ==
    /\ store \in DependentsStores
    /\ dependencies = {}
    /\ ret = [op |-> "none"]
    /\ vin = Idle /\ vout = Idle
    /\ val = Idle /\ vpc = Idle /\ vcall = Idle
    /\ dbuf = Idle /\ dout = Idle

\* Names of the keys below a Dependents key: "b" and "q".
ChildNames == {<<98>>, <<113>>}

\* One call of check_dependents(provider_key, scope, attributes, ignore).
CheckDependents ==
    \E provider_key \in CallKeys, ignore \in IgnoreArgs :
    \E path \in ReadPcwstr(ToPcwstr(provider_key)) :
    \E reads \in {f \in [ChildNames -> ChildNames \cup HeapTexts] :
                     \A n \in ChildNames : f[n] \in ReadPcwstr(ToPcwstr(n))} :
        /\ ret' = [op |-> "check_dependents", key |-> provider_key, path |-> path,
                   ignore |-> ignore,
                   intact |-> \A n \in ChildNames : reads[n] = n,
                   result |-> CheckDependentsResult(store, provider_key, path,
                                                    ignore, reads)]
        /\ UNCHANGED <<store, dependencies, versionVars, valueVars, dataVars>>

DependentsNext == CheckDependents

SpecDependents == DependentsInit /\ [][DependentsNext]_vars

----------------------------------------------------------------------------
(* Specification SpecKeys: Key handles derived from one another, from the  *)
(* root down to the children of a provider's Dependents key. ret holds the *)
(* last operation: the handle it was called on and the handles it gave.    *)

\* Key::create(scope.into(), ROOT_KEY): RegCreateKeyW opens the key, creating
\* it when it is missing; the handle is recorded as KEY_ALL_ACCESS.
KeyCreateRoot(st) ==
    IF st.exists /\ st.denied THEN [result |-> Err(E_ACCESSDENIED), store |-> st]
    ELSE [result |-> Ok([node |-> <<>>, access |-> KEY_ALL_ACCESS]),
          store |-> [st EXCEPT !.exists = TRUE]]

NoHandle == [node |-> <<"none">>, access |-> "none"]

\* What an operation that gives one handle leaves in ret.
Opened(op, parent, result) ==
    [op |-> op, parent |-> parent,
     keys |-> IF result.ok THEN <<result.v>> ELSE <<>>,
     result |-> IF result.ok THEN Ok("key") ELSE result]

\* The handle the last operation gave, to derive the next from.
HeldKey == ret.keys[1]
HoldsKey == ret.op \in {"create", "open", "open_subkey"} /\ Len(ret.keys) = 1

KeysInit == DependentsInit

KeysCreate ==
    /\ ret.op = "none"
    /\ \E r \in {KeyCreateRoot(store)} :
          /\ store' = r.store
          /\ ret' = Opened("create", NoHandle, r.result)
    /\ UNCHANGED <<dependencies, versionVars, valueVars, dataVars>>

KeysOpen ==
    /\ ret.op = "none"
    /\ ret' = Opened("open", NoHandle, KeyOpenRoot(store))
    /\ UNCHANGED <<store, dependencies, versionVars, valueVars, dataVars>>

\* open_subkey(path) on the root's handle, and open_subkey(DEPENDENTS_KEY)
\* on a provider's.
KeysOpenSubkey ==
    /\ HoldsKey
    /\ \/ /\ HeldKey.node = <<>>
          /\ \E path \in BatchKeys :
                ret' = Opened("open_subkey", HeldKey, KeyOpenSubkey(store, HeldKey, path))
       \/ /\ Len(HeldKey.node) = 1
          /\ ret' = Opened("open_subkey", HeldKey, KeyOpenDependents(store, HeldKey))
    /\ UNCHANGED <<store, dependencies, versionVars, valueVars, dataVars>>

\* keys() on the handle of a Dependents key, iterated to its end.
KeysEnumerate ==
    /\ HoldsKey
    /\ Len(HeldKey.node) = 2
    /\ ret' = [op |-> "keys", parent |-> HeldKey,
               keys |-> KeysCollect(
                            store.providers[HeldKey.node[1]].dependents.children),
               result |-> Ok("keys")]
    /\ UNCHANGED <<store, dependencies, versionVars, valueVars, dataVars>>

KeysNext == KeysCreate \/ KeysOpen \/ KeysOpenSubkey \/ KeysEnumerate

SpecKeys == KeysInit /\ [][KeysNext]_vars

\* C14: every handle derived from a parent carries the parent's access mode:
\* the handle open_subkey returns and every handle keys() produces, for a
\* parent opened for reading and for a parent opened by create alike.
C14_ChildInheritsAccess ==
    ret.op \in {"open_subkey", "keys"} =>
        \A i \in 1..Len(ret.keys) : ret.keys[i].access = ret.parent.access

\* C14 for open_subkey, and for keys() on a parent opened for reading.
SubkeyInheritsAccess ==
    (ret.op = "open_subkey" \/ (ret.op = "keys" /\ ret.parent.access = KEY_READ)) =>
        \A i \in 1..Len(ret.keys) : ret.keys[i].access = ret.parent.access

----------------------------------------------------------------------------
(* Specification SpecScenario: one run of the chkdeps example against a    *)
(* store that holds the providers "Foo" and "Bar".                         *)

\* "Foo", "Bar", "Foo Package", "Bar Package", "1.2.3.4".
FooKey == <<70, 111, 111>>
BarKey == <<66, 97, 114>>
FooPackage == <<70, 111, 111, 32, 80, 97, 99, 107, 97, 103, 101>>
BarPackage == <<66, 97, 114, 32, 80, 97, 99, 107, 97, 103, 101>>
Version1234 == <<49, 46, 50, 46, 51, 46, 52>>

\* impl Display for Provider: "name (key)", or the key alone when the name
\* is empty.
ProviderToString(p) ==
    IF Len(p.name) # 0 THEN p.name \o <<32, 40>> \o p.key \o <<41>>
    ELSE p.key

\* examples/chkdeps.rs main, from the result of check_dependents: the lines
\* printed and the exit status (an Err returned from main exits with 1).
ChkdepsMain(result) ==
    IF ~result.ok THEN [stdout |-> <<>>, status |-> 1]
    ELSE IF ~result.v.some THEN [stdout |-> <<>>, status |-> 0]
    ELSE [stdout |-> [i \in 1..Len(result.v.v) |-> ProviderToString(result.v.v[i])],
          status |-> IF Len(result.v.v) # 0 THEN 1 ELSE 0]

\* A Dependents key with the one child `name`.
DependentsWith(name) ==
    [exists |-> TRUE, denied |-> FALSE, children |-> <<Child(name, FALSE)>>]

\* Registrations of "Foo": DisplayName "Foo Package", Version "1.2.3.4",
\* with or without the unnamed value, with or without a Dependents\Bar key.
ScenarioNodesFoo ==
    {Node(FALSE, SzValue(FooPackage), id, SzValue(Version1234), d) :
        id \in {NoValue, SzValue(<<105>>)}, d \in {NoKey, DependentsWith(BarKey)}}

\* Keys of "Bar": with no values or registered as "Bar Package" 1.2.3.4,
\* with or without a Dependents\Foo key.
ScenarioNodesBar ==
    {Node(FALSE, NoValue, NoValue, NoValue, d) : d \in {NoKey, DependentsWith(FooKey)}}
    \cup
    {Node(FALSE, SzValue(BarPackage), SzValue(<<105>>), SzValue(Version1234), d) :
        d \in {NoKey, DependentsWith(FooKey)}}

ScenarioStores ==
    {RootStore(NoValue, [n \in {FooKey} |-> foo]) : foo \in ScenarioNodesFoo} \cup
    {RootStore(NoValue, [n \in {FooKey, BarKey} |-> IF n = FooKey THEN foo ELSE bar]) :
        foo \in ScenarioNodesFoo, bar \in ScenarioNodesBar}

ScenarioKeys == {FooKey, BarKey}

\* --ignore: absent, "Bar", "bar".
ScenarioIgnoreArgs == {None, Some({BarKey}), Some({<<98, 97, 114>>})}

ScenarioInit ==
    /\ store \in ScenarioStores
    /\ dependencies = {}
    /\ ret = [op |-> "none"]
    /\ vin = Idle /\ vout = Idle
    /\ val = Idle /\ vpc = Idle /\ vcall = Idle
    /\ dbuf = Idle /\ dout = Idle

\* chkdeps --provider-key KEY [--ignore ...]
Chkdeps ==
    /\ ret.op = "none"
    /\ \E provider_key \in ScenarioKeys, ignore \in ScenarioIgnoreArgs :
       \E path \in ReadPcwstr(ToPcwstr(provider_key)) :
       \E reads \in {f \in [ScenarioKeys -> ScenarioKeys \cup HeapTexts] :
                        \A n \in ScenarioKeys : f[n] \in ReadPcwstr(ToPcwstr(n))} :
       \E r \in {CheckDependentsResult(store, provider_key, path, ignore, reads)} :
          ret' = [op |-> "chkdeps", key |-> provider_key, path |-> path,
                  ignore |-> ignore,
                  intact |-> \A n \in ScenarioKeys : reads[n] = n,
                  result |-> r,
                  stdout |-> ChkdepsMain(r).stdout,
                  status |-> ChkdepsMain(r).status]
    /\ UNCHANGED <<store, dependencies, versionVars, valueVars, dataVars>>

ScenarioNext == Chkdeps

SpecScenario == ScenarioInit /\ [][ScenarioNext]_vars

----------------------------------------------------------------------------
(* Specification SpecRegister: Provider::register, then get_provider.      *)

\* Key::set_value(name, Data::String(..)) on a provider's node.
SetValue(node, field, value) == (field :> value) @@ node

\* Key::create_subkey(path) on the root: the key the path names, created
\* without values when the store has none.
CreateSubkey(st, path) ==
    IF StoredName(st, path) = {}
    THEN [result |-> Ok(path),
          store |-> [st EXCEPT !.providers =
                        (path :> Node(FALSE, NoValue, NoValue, NoValue, NoKey)) @@ @]]
    ELSE LET n == CHOOSE x \in StoredName(st, path) : TRUE
         IN  IF st.providers[n].denied
             THEN [result |-> Err(E_ACCESSDENIED), store |-> st]
             ELSE [result |-> Ok(n), store |-> st]

\* Provider::register(scope), given the path create_subkey read through the
\* pointer of to_pcwstr: the result and the store on return.
ProviderRegister(st, provider, path) ==
    LET root == KeyCreateRoot(st)
    IN  IF ~root.result.ok
        THEN [result |-> Err(RegistryError(root.result.err)), store |-> st]
        ELSE
    LET sub == CreateSubkey(root.store, path)
    IN  IF ~sub.result.ok
        THEN [result |-> Err(RegistryError(sub.result.err)), store |-> sub.store]
        ELSE
    LET n == sub.result.v
        named == SetValue(sub.store.providers[n], "displayName", SzValue(provider.name))
        versioned == SetValue(named, "version",
                              SzValue(VersionToString(provider.version)))
        identified == IF provider.id.some
                      THEN SetValue(versioned, "id", SzValue(provider.id.v))
                      ELSE versioned
        attributed == IF provider.attributes.some
                      THEN SetValue(identified, "attributes",
                                    StoredValue(REG_DWORD, <<provider.attributes.v % 256,
                                                             provider.attributes.v \div 256,
                                                             0, 0>>))
                      ELSE identified
    IN  [result |-> Ok("unit"),
         store |-> [sub.store EXCEPT !.providers = (n :> attributed) @@ @]]

\* Providers registered: key "f", DisplayName "" or "n", Version 1.0.0.0 or
\* 1.2.3.4, with and without an id, with and without attributes.
RegisterProviders ==
    [key : {<<102>>}, name : {<<>>, <<110>>},
     version : {<<1, 0, 0, 0>>, <<1, 2, 3, 4>>},
     id : {None, Some(<<105>>)},
     attributes : {None, Some(MinVersionInclusive)}]

\* No root key, a root that cannot be opened, an empty root, and a root
\* holding a key for "f".
RegisterStores ==
    {RootMissing, RootDenied, RootStore(NoValue, <<>>)} \cup
    {RootStore(NoValue, [n \in {<<102>>} |-> f]) : f \in NodesF}

RegisterInit ==
    /\ store \in RegisterStores
    /\ dependencies = {}
    /\ ret = [op |-> "none"]
    /\ vin = Idle /\ vout = Idle
    /\ val = Idle /\ vpc = Idle /\ vcall = Idle
    /\ dbuf = Idle /\ dout = Idle

\* p.register(scope).
Register ==
    /\ ret.op = "none"
    /\ \E provider \in RegisterProviders :
       \E path \in ReadPcwstr(ToPcwstr(provider.key)) :
       \E r \in {ProviderRegister(store, provider, path)} :
          /\ store' = r.store
          /\ ret' = [op |-> "register", provider |-> provider, path |-> path,
                     before |-> store, result |-> r.result]
    /\ UNCHANGED <<dependencies, versionVars, valueVars, dataVars>>

\* get_provider(provider_key, scope), first or after a register.
Resolve ==
    /\ ret.op \in {"none", "register"}
    /\ \E provider_key \in CallKeys :
       \E path \in ReadPcwstr(ToPcwstr(provider_key)) :
          ret' = [op |-> "get_provider", key |-> provider_key, path |-> path,
                  registered |-> IF ret.op = "register" /\ ret.result.ok
                                 THEN Some(ret.provider) ELSE None,
                  written |-> IF ret.op = "register" THEN Some(ret.path) ELSE None,
                  result |-> GetProvider(store, provider_key, path)]
    /\ UNCHANGED <<store, dependencies, versionVars, valueVars, dataVars>>

RegisterNext == Register \/ Resolve

SpecRegister == RegisterInit /\ [][RegisterNext]_vars

----------------------------------------------------------------------------
(* What the claims speak of. *)

RootOpens == store.exists /\ ~store.denied

\* The registration the store holds for a provider key, if any.
Registered(key) == RootOpens /\ StoredName(store, key) # {}
OwnNode(key) == store.providers[CHOOSE n \in StoredName(store, key) : TRUE]

\* The Version stored under the provider's own key.
OwnVersion(key) == AsVersion(KeyValue(VersionName, OwnNode(key).version))

\* Keys that differ in the case of ASCII letters at most.
FoldCase(s) == [i \in 1..Len(s) |-> IF s[i] >= 65 /\ s[i] <= 90 THEN s[i] + 32 ELSE s[i]]
SameIgnoringCase(a, b) == FoldCase(a) = FoldCase(b)

NotFoundResult == Err([kind |-> "NotFound"])

IsDependenciesCall == ret.op = "check_dependencies"
IsDependentsCall == ret.op = "check_dependents"

\* The call read the text of its own key through the pointer.
PathIntact == ret.path = ret.key

\* The range of the claim: a missing bound passes, a bound passes strictly,
\* or on equality when its flag is the attribute passed.
FlagSet(attributes, flag) == attributes.some /\ attributes.v = flag
RefInRange(v, min, max, attributes) ==
    /\ \/ ~min.some
       \/ VersionLt(min.v, v)
       \/ FlagSet(attributes, MinVersionInclusive) /\ min.v = v
    /\ \/ ~max.some
       \/ VersionLt(v, max.v)
       \/ FlagSet(attributes, MaxVersionInclusive) /\ v = max.v

\* C1: with the root present, check_dependencies inserts the key-only record
\* and returns NotFound before any range check exactly when the provider's
\* key is absent or the Version under the provider's own key is missing or
\* undecodable; otherwise the range checks use the provider's own Version.
\* (Stated for the calls whose pointer read found the key's own text, and
\* for keys that can be opened.)
C1_KeyOnlyIffNoOwnVersion ==
    (IsDependenciesCall /\ RootOpens /\ PathIntact
        /\ (Registered(ret.key) => ~OwnNode(ret.key).denied)) =>
        LET keyOnly == /\ ret.result = NotFoundResult
                       /\ ret.stage \in {"key", "version"}
                       /\ dependencies = HashSetInsert(ret.before, ProviderNew(ret.key))
            noVersion == ~Registered(ret.key) \/ ~OwnVersion(ret.key).some
        IN  /\ keyOnly <=> noVersion
            /\ ~noVersion => ret.found = OwnVersion(ret.key)

\* C2: for a registered provider whose own Version v decodes (and whose
\* record can be built), check_dependencies succeeds iff v is within the
\* bounds passed, inclusive where the flag says so; otherwise it inserts the
\* provider's full record and returns NotFound.
C2_SuccessIffInRange ==
    (IsDependenciesCall /\ RootOpens /\ PathIntact /\ Registered(ret.key)
        /\ ~OwnNode(ret.key).denied /\ OwnVersion(ret.key).some
        /\ ProviderFromRequiresDisplayName(ret.key, OwnNode(ret.key)).ok) =>
        LET v == OwnVersion(ret.key).v
            full == ProviderFromRequiresDisplayName(ret.key, OwnNode(ret.key)).v
        IN  /\ ret.result.ok <=> RefInRange(v, ret.min, ret.max, ret.attributes)
            /\ ~ret.result.ok =>
                  /\ ret.result = NotFoundResult
                  /\ dependencies = HashSetInsert(ret.before, full)

\* C3: a successful check_dependencies leaves the violation set as it was,
\* and a call without a minimum and without a maximum on a registered
\* provider whose Version decodes succeeds and leaves the set as it was.
C3_SuccessLeavesSet ==
    IsDependenciesCall =>
        /\ ret.result.ok => dependencies = ret.before
        /\ (RootOpens /\ PathIntact /\ Registered(ret.key)
               /\ ~OwnNode(ret.key).denied /\ OwnVersion(ret.key).some
               /\ ProviderFromRequiresDisplayName(ret.key, OwnNode(ret.key)).ok
               /\ ~ret.min.some /\ ~ret.max.some) =>
              ret.result.ok /\ dependencies = ret.before

\* The first half of C3 alone.
SuccessLeavesSet == (IsDependenciesCall /\ ret.result.ok) => dependencies = ret.before

\* C9: some attributes argument makes both bounds inclusive in one call (a
\* version equal to the minimum and to the maximum passes); an argument
\* makes the minimum alone inclusive, another the maximum alone; with no
\* attributes both bounds are exclusive.
C9_FlagsCombine ==
    (IsDependenciesCall /\ ret.stage = "range"
        /\ ret.min = ret.found /\ ret.max = ret.found) =>
        LET v == ret.found.v
        IN  /\ \E a \in AttributesArgs : VersionInRange(v, ret.min, ret.max, a)
            /\ \E a \in AttributesArgs :
                  VersionInRange(v, ret.min, None, a) /\ ~VersionInRange(v, None, ret.max, a)
            /\ \E a \in AttributesArgs :
                  ~VersionInRange(v, ret.min, None, a) /\ VersionInRange(v, None, ret.max, a)
            /\ ~VersionInRange(v, ret.min, None, None)
            /\ ~VersionInRange(v, None, ret.max, None)

\* C9 without its first part.
FlagsSingly ==
    (IsDependenciesCall /\ ret.stage = "range"
        /\ ret.min = ret.found /\ ret.max = ret.found) =>
        LET v == ret.found.v
        IN  /\ \E a \in AttributesArgs :
                  VersionInRange(v, ret.min, None, a) /\ ~VersionInRange(v, None, ret.max, a)
            /\ \E a \in AttributesArgs :
                  ~VersionInRange(v, ret.min, None, a) /\ VersionInRange(v, None, ret.max, a)
            /\ ~VersionInRange(v, ret.min, None, None)
            /\ ~VersionInRange(v, None, ret.max, None)

\* Records with every key a caller passes, bare and with a name, a version
\* and an id.
SampleRecords ==
    {ProviderNew(k) : k \in CallKeys} \cup
    {[ProviderNew(k) EXCEPT !.name = <<110>>, !.version = <<1, 2, 3, 4>>,
                            !.id = Some(<<105>>)] : k \in CallKeys}

----------------------------------------------------------------------------
(* check_dependents. *)

RECURSIVE KeysOf(_)
KeysOf(providers) ==
    IF Len(providers) = 0 THEN <<>>
    ELSE <<providers[1].key>> \o KeysOf(Tail(providers))

\* The names of the children that are not in the ignore set, in order.
RECURSIVE NotIgnored(_, _)
NotIgnored(children, ignore) ==
    IF Len(children) = 0 THEN <<>>
    ELSE (IF ignore.some /\ children[1].name \in ignore.v THEN <<>>
          ELSE <<children[1].name>>)
         \o NotIgnored(Tail(children), ignore)

AccessDenied == Err([kind |-> "RegistryError", code |-> E_ACCESSDENIED])

\* C4: check_dependents returns Ok(None) when the root is absent, when the
\* provider's key is absent under the root, and when the provider's key has
\* no Dependents child; a root, provider key or Dependents key that exists
\* and fails to open makes the call return that store error.
C4_NoDependentsWhenAbsent ==
    IsDependentsCall =>
        /\ ~store.exists => ret.result = Ok(None)
        /\ (store.exists /\ store.denied) => ret.result = AccessDenied
        /\ (RootOpens /\ ~Registered(ret.key)) => ret.result = Ok(None)
        /\ (Registered(ret.key) /\ OwnNode(ret.key).denied) => ret.result = AccessDenied
        /\ (Registered(ret.key) /\ ~OwnNode(ret.key).denied) =>
              /\ ~OwnNode(ret.key).dependents.exists => ret.result = Ok(None)
              /\ (OwnNode(ret.key).dependents.exists
                     /\ OwnNode(ret.key).dependents.denied) => ret.result = AccessDenied

\* C5: when the root, the provider's key and its Dependents key exist (and
\* open), check_dependents returns one record for every child of Dependents
\* whose name is not ignored, none for an ignored name, in enumeration order.
C5_EveryChildInOrder ==
    (IsDependentsCall /\ Registered(ret.key) /\ ~OwnNode(ret.key).denied
        /\ OwnNode(ret.key).dependents.exists
        /\ ~OwnNode(ret.key).dependents.denied) =>
        /\ ret.result.ok
        /\ ret.result.v.some
        /\ KeysOf(ret.result.v.v) =
              NotIgnored(OwnNode(ret.key).dependents.children, ret.ignore)

----------------------------------------------------------------------------
(* Data::from on every tag and length. *)

\* C18: Data::from ends, for every type tag and every buffer length, with a
\* decoded value or with None, and never aborts: a 32-bit integer tag with a
\* buffer not 4 bytes long, a 64-bit integer tag with a buffer not 8 bytes
\* long and an unknown tag included.
C18_DecodingIsTotal == dout # Idle => dout # DataPanic

\* Decoding is total for the tags other than the two integer tags.
DecodingIsTotalButIntegers ==
    (dout # Idle /\ dbuf.data_type \notin {REG_DWORD, REG_QWORD}) => dout # DataPanic

----------------------------------------------------------------------------
(* The pointer of to_pcwstr. *)

\* C17: the buffer to_pcwstr builds for a provider key is the NUL-terminated
\* UTF-16 encoding of the key, and it is still allocated when open_subkey
\* reads it: the path a call reads through the pointer is the key's text and
\* no read reaches a freed buffer.
C17_BufferLiveWhenRead ==
    (IsDependentsCall /\ RootOpens) =>
        /\ ToPcwstr(ret.key).units = EncodeUtf16(ret.key) \o <<0>>
        /\ ~ToPcwstr(ret.key).freed
        /\ ret.path = ret.key

\* The first part of C17: what to_pcwstr writes is the key's encoding and a
\* NUL, and reading it back while it is allocated gives the key's text.
BufferHoldsKey ==
    (IsDependentsCall /\ RootOpens) =>
        /\ ToPcwstr(ret.key).units = EncodeUtf16(ret.key) \o <<0>>
        /\ ReadPcwstr([ToPcwstr(ret.key) EXCEPT !.freed = FALSE]) = {ret.key}

----------------------------------------------------------------------------
(* The violation set on the error returns of check_dependencies. *)

HoldsRecordFor(set, key) == \E q \in set : ProviderEq(q, ProviderNew(key))

\* C16: when check_dependencies returns NotFound the violation set holds a
\* record for the key checked, on every path that returns NotFound, the one
\* where the key and a Version are read but the record cannot be built
\* included; when it returns another error the set is as it was.
C16_NotFoundHasInserted ==
    IsDependenciesCall =>
        /\ ret.result = NotFoundResult => HoldsRecordFor(dependencies, ret.key)
        /\ (~ret.result.ok /\ ret.result # NotFoundResult) => dependencies = ret.before

\* C16 but for the return from building the record.
NotFoundHasInsertedButBuild ==
    (IsDependenciesCall /\ ret.stage # "provider") =>
        /\ ret.result = NotFoundResult => HoldsRecordFor(dependencies, ret.key)
        /\ (~ret.result.ok /\ ret.result # NotFoundResult) => dependencies = ret.before

----------------------------------------------------------------------------
(* The violation set across a batch of calls. *)

\* C15: across check_dependencies calls that share one violation set, every
\* record in the set before a call is in it, unchanged, after the call (the
\* set never shrinks, and a record present for a key stays as it is when the
\* call inserts a record for that key), a call adds one record at most, and
\* the set never holds two records whose keys are equal ignoring case.
C15_SetAccumulates ==
    /\ \A a, b \in dependencies : SameIgnoringCase(a.key, b.key) => a = b
    /\ IsDependenciesCall =>
          /\ ret.before \subseteq dependencies
          /\ Cardinality(dependencies) <= Cardinality(ret.before) + 1
          /\ \A q \in ret.before : \A p \in dependencies :
                SameIgnoringCase(p.key, q.key) => p = q
          /\ (\E q \in ret.before : SameIgnoringCase(q.key, ret.key)) =>
                dependencies = ret.before

\* The set holds records for two providers, one of them under the key "f",
\* and a call for "F" that found a requirement failed left it as it was.
C15_Witness ==
    /\ IsDependenciesCall
    /\ Cardinality(ret.before) = 2
    /\ ret.key = <<70>>
    /\ ret.result = NotFoundResult
    /\ \E q \in ret.before : q.key = <<102>> /\ q \in dependencies
    /\ dependencies = ret.before

----------------------------------------------------------------------------
(* The records of check_dependents. *)

\* The provider key `name` resolves: it is registered, opens, and the record
\* can be built from its values.
Resolves(name) ==
    /\ Registered(name)
    /\ ~OwnNode(name).denied
    /\ ProviderFrom(name, OwnNode(name)).ok

DependentsOpen ==
    /\ IsDependentsCall
    /\ Registered(ret.key)
    /\ ~OwnNode(ret.key).denied
    /\ OwnNode(ret.key).dependents.exists
    /\ ~OwnNode(ret.key).dependents.denied

\* C13: in check_dependents every enumerated child name of Dependents that
\* is not ignored contributes a record, and when its own provider key does
\* not resolve (absent under the root, unreadable, or a store error) the
\* record is the bare one with the key name only; the call succeeds.
C13_UnresolvedGivesBareRecord ==
    DependentsOpen =>
        /\ ret.result.ok
        /\ ret.result.v.some
        /\ LET list == ret.result.v.v
               names == NotIgnored(OwnNode(ret.key).dependents.children, ret.ignore)
           IN  /\ \A i \in 1..Len(names) :
                     \E j \in 1..Len(list) : list[j].key = names[i]
               /\ \A j \in 1..Len(list) :
                     ~Resolves(list[j].key) => list[j] = ProviderNew(list[j].key)

\* C13 for the calls that read every key text intact, under Dependents keys
\* whose children all open.
UnresolvedGivesBareRecordIntact ==
    (DependentsOpen /\ PathIntact /\ ret.intact
        /\ \A i \in 1..Len(OwnNode(ret.key).dependents.children) :
              ~OwnNode(ret.key).dependents.children[i].denied) =>
        C13_UnresolvedGivesBareRecord

\* As the last but for any reads by get_provider.
EveryChildContributes ==
    (DependentsOpen /\ PathIntact
        /\ \A i \in 1..Len(OwnNode(ret.key).dependents.children) :
              ~OwnNode(ret.key).dependents.children[i].denied) =>
        C13_UnresolvedGivesBareRecord

\* C13 for the calls that read every key text intact.
UnresolvedGivesBareRecordReadsIntact ==
    (DependentsOpen /\ PathIntact /\ ret.intact) => C13_UnresolvedGivesBareRecord

----------------------------------------------------------------------------
(* The end-to-end scenario. *)

IsChkdepsRun == ret.op = "chkdeps"

\* "Foo" is registered with DisplayName "Foo Package" and Version "1.2.3.4".
FooRegistered ==
    /\ FooKey \in DOMAIN store.providers
    /\ ProviderFrom(FooKey, [store.providers[FooKey] EXCEPT !.id = SzValue(<<105>>)]).ok
    /\ ProviderFrom(FooKey, [store.providers[FooKey] EXCEPT !.id = SzValue(<<105>>)]).v.name
          = FooPackage
    /\ OwnVersion(FooKey) = Some(<<1, 2, 3, 4>>)

\* The display forms of "Bar": "Bar (Bar)", and the one of its record when
\* it resolves.
BarDisplayForms ==
    {BarKey \o <<32, 40>> \o BarKey \o <<41>>} \cup
    (IF Resolves(BarKey)
     THEN {ProviderToString(ProviderFrom(BarKey, OwnNode(BarKey)).v)}
     ELSE {})

\* C12: with "Foo" registered (DisplayName "Foo Package", Version "1.2.3.4")
\* and a second provider "Bar" that has a Dependents\Foo child, checking the
\* dependents of "Foo" gives one entry, printed as "Bar (Bar)" or as the
\* display form of Bar's record, and the run exits with status 1. (Stated
\* for the runs that read every key text intact.)
C12_ScenarioListsBar ==
    (IsChkdepsRun /\ ret.key = FooKey /\ ret.ignore = None /\ FooRegistered
        /\ PathIntact /\ ret.intact
        /\ BarKey \in DOMAIN store.providers
        /\ store.providers[BarKey].dependents = DependentsWith(FooKey)) =>
        /\ ret.result.ok /\ ret.result.v.some /\ Len(ret.result.v.v) = 1
        /\ Len(ret.stdout) = 1
        /\ ret.stdout[1] \in BarDisplayForms
        /\ ret.status = 1

\* The scenario with the Dependents\Bar child under "Foo", for the runs that
\* read every key text intact: one line, "Bar" or the display form of Bar's
\* record, and status 1.
ScenarioUnderFoo ==
    (IsChkdepsRun /\ ret.key = FooKey /\ ret.ignore = None /\ FooRegistered
        /\ PathIntact /\ ret.intact
        /\ store.providers[FooKey].dependents = DependentsWith(BarKey)) =>
        /\ Len(ret.stdout) = 1
        /\ ret.stdout[1] \in ({BarKey} \cup BarDisplayForms) \ {BarKey \o <<32, 40>> \o BarKey \o <<41>>}
        /\ ret.status = 1

\* The same for every run, whatever the reads find.
ScenarioUnderFooAnyRead ==
    (IsChkdepsRun /\ ret.key = FooKey /\ ret.ignore = None /\ FooRegistered
        /\ store.providers[FooKey].dependents = DependentsWith(BarKey)) =>
        /\ Len(ret.stdout) = 1
        /\ ret.status = 1

----------------------------------------------------------------------------
(* Registration and resolution. *)

IsResolve == ret.op = "get_provider"

\* C11: after p.register(scope) succeeds, get_provider(p.key, scope) succeeds
\* and returns a record with p's key, name, version and id, for p with or
\* without an id and with an empty or non-empty display name; and a provider
\* key that holds a Version but no DisplayName value or no unnamed value
\* still resolves to a record. (Stated for the calls that read and write
\* every key text intact.)
C11_RegisterRoundTrips ==
    (IsResolve /\ PathIntact) =>
        /\ (ret.registered.some /\ ret.written = Some(ret.registered.v.key)
               /\ ret.key = ret.registered.v.key) =>
              /\ ret.result.ok
              /\ ret.result.v.key = ret.registered.v.key
              /\ ret.result.v.name = ret.registered.v.name
              /\ ret.result.v.version = ret.registered.v.version
              /\ ret.result.v.id = ret.registered.v.id
        /\ (Registered(ret.key) /\ ~OwnNode(ret.key).denied
               /\ OwnVersion(ret.key).some) => ret.result.ok

\* The round trip of a provider with an id, registered under a key that was
\* not there before.
RoundTripWithId ==
    (IsResolve /\ PathIntact /\ ret.registered.some
        /\ ret.written = Some(ret.registered.v.key)
        /\ ret.key = ret.registered.v.key
        /\ ret.registered.v.id.some) =>
        /\ ret.result.ok
        /\ ret.result.v.key = ret.registered.v.key
        /\ ret.result.v.name = ret.registered.v.name
        /\ ret.result.v.version = ret.registered.v.version
        /\ ret.result.v.id = ret.registered.v.id

====
